---- MODULE Spec2Model ----
(***************************************************************************)
(* Silence trimmer: the job execution pipeline.                            *)
(*                                                                         *)
(*   - the video router (confirmUpload, retryJob) that creates and resets  *)
(*     job records, charges the workspace and enqueues queue messages;     *)
(*   - the BullMQ queue "video-processing" (attempts: 3, custom jobId);    *)
(*   - the worker's processVideoJob / processVideo, one step per await.    *)
(***************************************************************************)
EXTENDS Integers, Sequences, FiniteSets, TLC

(***************************************************************************)
(* Bounds of the model and constants of the program                        *)
(***************************************************************************)
\* Date.now() ranges over 0..MaxClock
MaxClock == 1
\* how many times retryJob may be accepted in one behaviour
MaxRetries == 1
\* attempts per job followed when two jobs run side by side
MaxPairAttempts == 1
\* the workspace's credit balance when the behaviour starts
InitCredits == 2
\* defaultJobOptions.attempts
Attempts == 3
\* the Worker's concurrency option
Concurrency == 2

JobIds == {1, 2}
\* the job followed when one job is studied alone
Solo == {1}
Clients == {"c1"}
WorkspaceId == "w1"
Filenames == {"talk.mp4"}

\* null of each column type
NullKey == <<>>
NullTime == -1
NullDur == -1
NullErr == "null"

Statuses == {"queued", "processing", "completed", "failed"}
Terminal == {"completed", "failed"}

(***************************************************************************)
(* Media the external tools may report for an input file: the probed       *)
(* duration and the silences parsed from the detector's output.            *)
(***************************************************************************)
Iv(s, e) == [start |-> s, end |-> e]

MediaCases ==
    { [duration |-> 4, silences |-> <<>>],
      [duration |-> 4, silences |-> <<Iv(1, 2)>>],
      [duration |-> 4, silences |-> <<Iv(0, 4)>>] }

(***************************************************************************)
(* Faulty variants of the planner's loop, against which the planner's      *)
(* properties are shown to depend on the loop as written.                  *)
(***************************************************************************)
RECURSIVE WalkSilencesFromStart(_, _, _, _)
\* the cursor moves to the start of the silence instead of its end
WalkSilencesFromStart(silences, k, currentTime, segments) ==
    IF k > Len(silences)
    THEN [segments |-> segments, currentTime |-> currentTime]
    ELSE LET silence == silences[k]
             segs2 == IF silence.start > currentTime
                      THEN Append(segments, Iv(currentTime, silence.start))
                      ELSE segments
         IN WalkSilencesFromStart(silences, k + 1, silence.start, segs2)

RECURSIVE WalkSilencesGe(_, _, _, _)
\* the gap before a silence is kept when silence.start >= currentTime
WalkSilencesGe(silences, k, currentTime, segments) ==
    IF k > Len(silences)
    THEN [segments |-> segments, currentTime |-> currentTime]
    ELSE LET silence == silences[k]
             segs2 == IF silence.start >= currentTime
                      THEN Append(segments, Iv(currentTime, silence.start))
                      ELSE segments
         IN WalkSilencesGe(silences, k + 1, silence.end, segs2)

(***************************************************************************)
(* buildNonSilentSegments(duration, silences)                              *)
(***************************************************************************)
RECURSIVE WalkSilences(_, _, _, _)
\* the for-loop: k is the index of the next silence, currentTime the cursor
WalkSilences(silences, k, currentTime, segments) ==
    IF k > Len(silences)
    THEN [segments |-> segments, currentTime |-> currentTime]
    ELSE LET silence == silences[k]
             segs2 == IF silence.start > currentTime
                      THEN Append(segments, Iv(currentTime, silence.start))
                      ELSE segments
         IN WalkSilences(silences, k + 1, silence.end, segs2)

\* faulty variant: the segment after the last silence is never added
buildWithoutTail(duration, silences) ==
    IF Len(silences) = 0
    THEN <<Iv(0, duration)>>
    ELSE WalkSilences(silences, 1, 0, <<>>).segments

\* faulty variant: no silence is taken to mean that nothing is kept
buildNothingWhenNoSilence(duration, silences) ==
    IF Len(silences) = 0
    THEN <<>>
    ELSE LET r == WalkSilences(silences, 1, 0, <<>>)
         IN IF r.currentTime < duration
            THEN Append(r.segments, Iv(r.currentTime, duration))
            ELSE r.segments

buildNonSilentSegments(duration, silences) ==
    IF Len(silences) = 0
    THEN <<Iv(0, duration)>>
    ELSE LET r == WalkSilences(silences, 1, 0, <<>>)
         IN IF r.currentTime < duration
            THEN Append(r.segments, Iv(r.currentTime, duration))
            ELSE r.segments

(***************************************************************************)
(* Paths and keys                                                          *)
(***************************************************************************)
InputPath(jobId) == <<"input", jobId>>
OutputPath(jobId) == <<"output", jobId>>
SegmentPath(ts, i) == <<"segment", ts, i>>
ConcatPath(ts) == <<"concat", ts>>
NoPath == <<>>

InputKey(jobId, filename) == <<"videos/input", WorkspaceId, jobId, filename>>
OutputKey(jobId, filename) == <<"videos/output", WorkspaceId, jobId, filename>>

(***************************************************************************)
(* State                                                                   *)
(***************************************************************************)
VARIABLES
    videoJobs,   \* the video_job table: JobIds -> row (status "none": no row)
    credits,     \* workspaces.credits of the one workspace
    bull,        \* the queue: JobIds -> entry keyed by the custom jobId
    w,           \* per job id: position and locals of its processVideoJob run
    fs,          \* files present in TEMP_DIR
    r2,          \* keys present in the object store
    sent,        \* notifications handed to the email sender: <<kind, jobId>>
    api,         \* per client: position and locals of its router mutation
    now,         \* Date.now()
    uploads,     \* per job id: the media the user uploaded under its input key
    refunds,     \* per job id: refund writes since creation or the last retry
    retries,     \* retryJob calls accepted so far
    payments,    \* the payment table: the stripeSessionId of each row (unique)
    hook,        \* per webhook delivery: position and locals of its POST handler
    proc         \* the worker process: "running", "closing" or "exited"

vars == <<videoJobs, credits, bull, w, fs, r2, sent, api, now, uploads, refunds,
          retries, payments, hook, proc>>

NoRow ==
    [status |-> "none", inputFileKey |-> NullKey, outputFileKey |-> NullKey,
     originalFilename |-> "", duration |-> NullDur, error |-> NullErr,
     createdAt |-> NullTime, completedAt |-> NullTime]

NoData == [jobId |-> 0, inputFileKey |-> NullKey, originalFilename |-> ""]

NoEntry == [state |-> "absent", attemptsMade |-> 0, data |-> NoData]

IdleRun ==
    [pc |-> "idle", err |-> NullErr, segments |-> <<>>, segmentPaths |-> <<>>,
     concatFilePath |-> NoPath, workspaceCredits |-> 0, duration |-> NullDur]

IdleCall == [pc |-> "idle", op |-> "none", jobId |-> 0, ctxCredits |-> 0,
             data |-> NoData]

\* the deliveries Stripe makes to the webhook for one payment
Hooks == {"h1", "h2"}

IdleHook == [pc |-> "idle", event |-> "none", workspaceCredits |-> 0]

\* nothing uploaded yet, no job row, an empty queue and an empty TEMP_DIR
Start(media) ==
    /\ videoJobs = [j \in JobIds |-> NoRow]
    /\ credits = InitCredits
    /\ bull = [j \in JobIds |-> NoEntry]
    /\ w = [j \in JobIds |-> IdleRun]
    /\ fs = {}
    /\ r2 = {}
    /\ sent = {}
    /\ api = [c \in Clients |-> IdleCall]
    /\ now = 0
    /\ uploads = media
    /\ refunds = [j \in JobIds |-> 0]
    /\ retries = 0
    /\ payments = {}
    /\ hook = [h \in Hooks |-> IdleHook]
    /\ proc = "running"

Init == \E m \in MediaCases : Start([j \in JobIds |-> m])


(***************************************************************************)
(* Helpers                                                                 *)
(***************************************************************************)
Range(seq) == {seq[k] : k \in 1..Len(seq)}

RECURSIVE SumLengths(_, _)
SumLengths(segments, k) ==
    IF k > Len(segments) THEN 0
    ELSE (segments[k].end - segments[k].start) + SumLengths(segments, k + 1)

ActiveJobs == {j \in JobIds : bull[j].state = "active"}

(***************************************************************************)
(* The queue: videoProcessingQueue.add("process-video", data, {jobId})     *)
(* An add whose jobId is still known to the queue, in any state, is        *)
(* ignored; otherwise the entry waits with no attempt made.                *)
(***************************************************************************)
QueueAdd(q, data) ==
    IF q[data.jobId].state = "absent"
    THEN [q EXCEPT ![data.jobId] =
             [state |-> "waiting", attemptsMade |-> 0, data |-> data]]
    ELSE q

\* the processor returned: the entry is kept among the completed ones
QueueCompleted(q, jobId) ==
    [q EXCEPT ![jobId].state = "completed",
              ![jobId].attemptsMade = q[jobId].attemptsMade + 1]

\* the processor threw: another attempt after the backoff while attempts
\* remain, otherwise the entry is kept among the failed ones
QueueFailed(q, jobId) ==
    [q EXCEPT ![jobId].state =
                  IF q[jobId].attemptsMade + 1 < Attempts
                  THEN "waiting" ELSE "failed",
              ![jobId].attemptsMade = q[jobId].attemptsMade + 1]

\* removeOnComplete / removeOnFail: a finished entry leaves the queue
Evict(j) ==
    /\ bull[j].state \in {"completed", "failed"}
    /\ bull' = [bull EXCEPT ![j] = NoEntry]
    /\ UNCHANGED <<videoJobs, credits, w, fs, r2, sent, api, now, refunds, retries, uploads, payments, hook, proc>>

Tick ==
    /\ now < MaxClock
    /\ now' = now + 1
    /\ UNCHANGED <<videoJobs, credits, bull, w, fs, r2, sent, api, refunds, retries, uploads, payments, hook, proc>>

(***************************************************************************)
(* The worker: processVideoJob(job), one action per awaited step.          *)
(* w[j].pc names the step the run of job id j is about to take.            *)
(***************************************************************************)
\* the message of an error thrown by a library (database, object store, email
\* sender, stream, child_process): opaque to the worker
LibError == "library error"
\* the message of the error sendVideoCompletedEmail rethrows
EmailError == "email error"

\* a step rejected inside the try block: control moves to the catch block
Raise(j, message) ==
    [w EXCEPT ![j].pc = "catch", ![j].err = message]

\* what the processor's promise settles to once the catch block has run
CatchOutcome == "thrown"

\* the run of j ended: its promise settled and the queue records the attempt
Settle(j, outcome) ==
    /\ w' = [w EXCEPT ![j] = IdleRun]
    /\ bull' = IF outcome = "returned" THEN QueueCompleted(bull, j)
               ELSE QueueFailed(bull, j)

\* an error raised inside the catch block itself leaves processVideoJob at once
ThrowFromCatch(j) == Settle(j, "thrown")

\* the Worker takes a waiting entry while fewer than Concurrency are active
W_Pick(j) ==
    /\ proc = "running"
    /\ bull[j].state = "waiting"
    /\ Cardinality(ActiveJobs) < Concurrency
    /\ bull' = [bull EXCEPT ![j].state = "active"]
    /\ w' = [w EXCEPT ![j] = [IdleRun EXCEPT !.pc = "start"]]
    /\ UNCHANGED <<videoJobs, credits, fs, r2, sent, api, now, refunds, retries, uploads, payments, hook, proc>>

\* faulty variant of the step below: the download starts without the
\* processing write having been made
W_SetProcessingLate(j) ==
    /\ w[j].pc = "start"
    /\ \/ /\ w' = [w EXCEPT ![j].pc = "download"]
          /\ UNCHANGED videoJobs
       \/ /\ w' = Raise(j, LibError)
          /\ UNCHANGED videoJobs
    /\ UNCHANGED <<credits, bull, fs, r2, sent, api, now, refunds, retries, uploads, payments, hook, proc>>

\* db.update(videoJobs).set({status: "processing"})
W_SetProcessing(j) ==
    /\ w[j].pc = "start"
    /\ \/ /\ videoJobs' = [videoJobs EXCEPT ![j].status = "processing"]
          /\ w' = [w EXCEPT ![j].pc = "download"]
       \/ /\ w' = Raise(j, LibError)
          /\ UNCHANGED videoJobs
    /\ UNCHANGED <<credits, bull, fs, r2, sent, api, now, refunds, retries, uploads, payments, hook, proc>>

\* downloadFromR2(inputFileKey, inputPath)
W_Download(j) ==
    /\ w[j].pc = "download"
    /\ \/ /\ fs' = fs \cup {InputPath(j)}
          /\ w' = [w EXCEPT ![j].pc = "probe"]
       \/ /\ fs' = fs
          /\ w' = Raise(j, "Failed to get file stream from R2")
       \/ /\ fs' \in {fs, fs \cup {InputPath(j)}}
          /\ w' = Raise(j, LibError)
    /\ UNCHANGED <<videoJobs, credits, bull, r2, sent, api, now, refunds, retries, uploads, payments, hook, proc>>

\* spawn("ffprobe") fails (ENOENT, EAGAIN): the child emits 'error', for which
\* getVideoDuration registers no listener, so the error is thrown as an
\* uncaught exception and the process ends, with every run in it
SpawnErrorUncaught ==
    /\ proc' = "crashed"
    /\ w' = [k \in JobIds |-> IdleRun]

\* processVideo: getVideoDuration(inputPath)
W_Probe(j) ==
    /\ w[j].pc = "probe"
    /\ \/ /\ w' = [w EXCEPT ![j].pc = "detect", ![j].duration = uploads[j].duration]
          /\ UNCHANGED proc
       \/ /\ w' = Raise(j, "FFprobe failed")
          /\ UNCHANGED proc
       \/ SpawnErrorUncaught
    /\ UNCHANGED <<videoJobs, credits, bull, fs, r2, sent, api, now, refunds, retries, uploads, payments, hook>>

\* faulty variant of the step below: the planner is used whatever the detector
\* reports, with no short cut for an input without silence
W_DetectAlwaysPlan(j) ==
    /\ w[j].pc = "detect"
    /\ \/ w' = [w EXCEPT
                   ![j].pc = "extract",
                   ![j].segments =
                       buildNonSilentSegments(w[j].duration, uploads[j].silences),
                   ![j].concatFilePath = ConcatPath(now)]
       \/ w' = Raise(j, LibError)
    /\ UNCHANGED <<videoJobs, credits, bull, fs, r2, sent, api, now, refunds, retries, uploads, payments, hook, proc>>

\* what detectSilences resolves to: the close handler parses whatever ffmpeg
\* wrote to stderr, whatever its exit status.  A detector that ran to the end
\* reported every silence; one that exited early with a failure status
\* reported none.
DetectedSilences(m) == {m.silences, <<>>}

\* processVideo: detectSilences(inputPath), then the choice of the copy path
\* or buildNonSilentSegments and the concat manifest's name
W_Detect(j) ==
    /\ w[j].pc = "detect"
    /\ \/ \E silences \in DetectedSilences(uploads[j]) :
             IF Len(silences) = 0
             THEN w' = [w EXCEPT ![j].pc = "copy"]
             ELSE w' = [w EXCEPT
                          ![j].pc = "extract",
                          ![j].segments =
                              buildNonSilentSegments(w[j].duration, silences),
                          ![j].concatFilePath = ConcatPath(now)]
       \/ w' = Raise(j, LibError)
    /\ UNCHANGED <<videoJobs, credits, bull, fs, r2, sent, api, now, refunds, retries, uploads, payments, hook, proc>>

\* processVideo: ffmpeg -i input -c copy output
W_Copy(j) ==
    /\ w[j].pc = "copy"
    /\ \/ /\ fs' = fs \cup {OutputPath(j)}
          /\ w' = [w EXCEPT ![j].pc = "upload"]
       \/ /\ fs' \in {fs, fs \cup {OutputPath(j)}}
          /\ w' = Raise(j, "FFmpeg copy failed")
    /\ UNCHANGED <<videoJobs, credits, bull, r2, sent, api, now, refunds, retries, uploads, payments, hook, proc>>

\* faulty variant of the step below: the loop goes on after an extraction
\* that failed
W_ExtractOn(j) ==
    /\ w[j].pc = "extract"
    /\ Len(w[j].segmentPaths) < Len(w[j].segments)
    /\ LET i == Len(w[j].segmentPaths)
           segmentPath == SegmentPath(now, i)
           paths == Append(w[j].segmentPaths, segmentPath)
       IN /\ fs' \in {fs, fs \cup {segmentPath}}
          /\ w' = [w EXCEPT ![j].segmentPaths = paths]
    /\ UNCHANGED <<videoJobs, credits, bull, r2, sent, api, now, refunds, retries, uploads, payments, hook, proc>>

\* processVideo: one iteration of the extraction loop, i = segmentPaths.length
W_Extract(j) ==
    /\ w[j].pc = "extract"
    /\ Len(w[j].segmentPaths) < Len(w[j].segments)
    /\ LET i == Len(w[j].segmentPaths)
           segmentPath == SegmentPath(now, i)
           paths == Append(w[j].segmentPaths, segmentPath)
       IN \/ /\ fs' = fs \cup {segmentPath}
             /\ w' = [w EXCEPT ![j].segmentPaths = paths]
          \/ /\ fs' \in {fs, fs \cup {segmentPath}}
             /\ w' = [Raise(j, "FFmpeg segment extraction failed")
                        EXCEPT ![j].segmentPaths = paths]
    /\ UNCHANGED <<videoJobs, credits, bull, r2, sent, api, now, refunds, retries, uploads, payments, hook, proc>>

\* processVideo: fs.writeFile(concatFilePath, concatContent)
W_WriteConcat(j) ==
    /\ w[j].pc = "extract"
    /\ Len(w[j].segmentPaths) = Len(w[j].segments)
    /\ fs' = fs \cup {w[j].concatFilePath}
    /\ w' = [w EXCEPT ![j].pc = "concat"]
    /\ UNCHANGED <<videoJobs, credits, bull, r2, sent, api, now, refunds, retries, uploads, payments, hook, proc>>

\* faulty variant of the step below: a concatenation of no clip at all may
\* exit with status 0
W_ConcatAny(j) ==
    /\ w[j].pc = "concat"
    /\ \/ /\ Range(w[j].segmentPaths) \subseteq fs
          /\ w[j].concatFilePath \in fs
          /\ fs' = fs \cup {OutputPath(j)}
          /\ w' = [w EXCEPT ![j].pc = "cleanupSegments"]
       \/ /\ fs' \in {fs, fs \cup {OutputPath(j)}}
          /\ w' = Raise(j, "FFmpeg concatenation failed")
    /\ UNCHANGED <<videoJobs, credits, bull, r2, sent, api, now, refunds, retries, uploads, payments, hook, proc>>

\* processVideo: ffmpeg -f concat -i concatFilePath -c copy output
\* (an empty manifest has no input: ffmpeg exits with a failure status)
W_Concat(j) ==
    /\ w[j].pc = "concat"
    /\ \/ /\ Len(w[j].segments) > 0
          /\ Range(w[j].segmentPaths) \subseteq fs
          /\ w[j].concatFilePath \in fs
          /\ fs' = fs \cup {OutputPath(j)}
          /\ w' = [w EXCEPT ![j].pc = "cleanupSegments"]
       \/ /\ fs' \in {fs, fs \cup {OutputPath(j)}}
          /\ w' = Raise(j, "FFmpeg concatenation failed")
    /\ UNCHANGED <<videoJobs, credits, bull, r2, sent, api, now, refunds, retries, uploads, payments, hook, proc>>

\* processVideo: unlink of every segment file and of the manifest
W_CleanupSegments(j) ==
    /\ w[j].pc = "cleanupSegments"
    /\ fs' = fs \ (Range(w[j].segmentPaths) \cup {w[j].concatFilePath})
    /\ w' = [w EXCEPT ![j].pc = "upload"]
    /\ UNCHANGED <<videoJobs, credits, bull, r2, sent, api, now, refunds, retries, uploads, payments, hook, proc>>

\* faulty variant of the step below: the run goes on without the upload
\* having finished
W_UploadNotAwaited(j) ==
    /\ w[j].pc = "upload"
    /\ \/ /\ OutputPath(j) \in fs
          /\ r2' \in {r2, r2 \cup {OutputKey(j, bull[j].data.originalFilename)}}
          /\ w' = [w EXCEPT ![j].pc = "probeOutput"]
       \/ /\ r2' = r2
          /\ w' = Raise(j, LibError)
    /\ UNCHANGED <<videoJobs, credits, bull, fs, sent, api, now, refunds, retries, uploads, payments, hook, proc>>

\* fs.readFile(outputPath), uploadFile(outputFileKey, outputBuffer)
W_Upload(j) ==
    /\ w[j].pc = "upload"
    /\ \/ /\ OutputPath(j) \in fs
          /\ r2' = r2 \cup {OutputKey(j, bull[j].data.originalFilename)}
          /\ w' = [w EXCEPT ![j].pc = "probeOutput"]
       \/ /\ r2' = r2
          /\ w' = Raise(j, LibError)
    /\ UNCHANGED <<videoJobs, credits, bull, fs, sent, api, now, refunds, retries, uploads, payments, hook, proc>>

\* getVideoDuration(outputPath).catch(() => null), then
\* durationFloat ? Math.round(durationFloat) : null
W_ProbeOutput(j) ==
    /\ w[j].pc = "probeOutput"
    /\ \/ LET durationFloat == IF w[j].segments = <<>> /\ w[j].concatFilePath = NoPath
                               THEN w[j].duration
                               ELSE SumLengths(w[j].segments, 1)
          IN /\ \E probed \in {durationFloat, NullDur} :
                   w' = [w EXCEPT ![j].pc = "setCompleted",
                                  ![j].duration = IF probed = 0 THEN NullDur
                                                  ELSE probed]
             /\ UNCHANGED proc
       \/ SpawnErrorUncaught
    /\ UNCHANGED <<videoJobs, credits, bull, fs, r2, sent, api, now, refunds, retries, uploads, payments, hook>>

\* db.update(videoJobs).set({status: "completed", outputFileKey, duration, completedAt})
W_SetCompleted(j) ==
    /\ w[j].pc = "setCompleted"
    /\ \/ /\ videoJobs' = [videoJobs EXCEPT
                 ![j].status = "completed",
                 ![j].outputFileKey = OutputKey(j, bull[j].data.originalFilename),
                 ![j].duration = w[j].duration,
                 ![j].completedAt = now]
          /\ w' = [w EXCEPT ![j].pc = "notify"]
       \/ /\ w' = Raise(j, LibError)
          /\ UNCHANGED videoJobs
    /\ UNCHANGED <<credits, bull, fs, r2, sent, api, now, refunds, retries, uploads, payments, hook, proc>>

\* the user and workspace selects and sendVideoCompletedEmail, which rethrows
\* what the email sender throws
W_Notify(j) ==
    /\ w[j].pc = "notify"
    /\ \/ /\ sent' = sent \cup {<<"completed", j>>}
          /\ w' = [w EXCEPT ![j].pc = "cleanup"]
       \/ /\ sent' = sent
          /\ w' = Raise(j, EmailError)
    /\ UNCHANGED <<videoJobs, credits, bull, fs, r2, api, now, refunds, retries, uploads, payments, hook, proc>>

\* unlink(inputPath), unlink(outputPath); processVideoJob returns
W_Cleanup(j) ==
    /\ w[j].pc = "cleanup"
    /\ fs' = fs \ {InputPath(j), OutputPath(j)}
    /\ Settle(j, "returned")
    /\ UNCHANGED <<videoJobs, credits, r2, sent, api, now, refunds, retries, uploads, payments, hook, proc>>

\* catch: db.update(videoJobs).set({status: "failed", error, completedAt})
W_CatchSetFailed(j) ==
    /\ w[j].pc = "catch"
    /\ \/ /\ videoJobs' = [videoJobs EXCEPT
                 ![j].status = "failed",
                 ![j].error = w[j].err,
                 ![j].completedAt = now]
          /\ w' = [w EXCEPT ![j].pc = "refundRead"]
          /\ UNCHANGED bull
       \/ /\ ThrowFromCatch(j)
          /\ UNCHANGED videoJobs
    /\ UNCHANGED <<credits, fs, r2, sent, api, now, refunds, retries, uploads, payments, hook, proc>>

\* catch: the select of the workspace row
W_RefundRead(j) ==
    /\ w[j].pc = "refundRead"
    /\ w' = [w EXCEPT ![j].pc = "refundWrite", ![j].workspaceCredits = credits]
    /\ UNCHANGED <<videoJobs, credits, bull, fs, r2, sent, api, now, refunds, retries, uploads, payments, hook, proc>>

\* faulty variant of the step below: the catch block goes on to the failure
\* email when the refund write was rejected
W_RefundWriteOptional(j) ==
    /\ w[j].pc = "refundWrite"
    /\ \/ /\ credits' = w[j].workspaceCredits + 1
          /\ refunds' = [refunds EXCEPT ![j] = refunds[j] + 1]
          /\ w' = [w EXCEPT ![j].pc = "failEmail"]
          /\ UNCHANGED bull
       \/ /\ w' = [w EXCEPT ![j].pc = "failEmail"]
          /\ UNCHANGED <<credits, refunds, bull>>
    /\ UNCHANGED <<videoJobs, fs, r2, sent, api, now, retries, uploads, payments, hook, proc>>

\* catch: db.update(workspaces).set({credits: workspace[0].credits + 1})
W_RefundWrite(j) ==
    /\ w[j].pc = "refundWrite"
    /\ \/ /\ credits' = w[j].workspaceCredits + 1
          /\ refunds' = [refunds EXCEPT ![j] = refunds[j] + 1]
          /\ w' = [w EXCEPT ![j].pc = "failEmail"]
          /\ UNCHANGED bull
       \/ /\ ThrowFromCatch(j)
          /\ UNCHANGED <<credits, refunds>>
    /\ UNCHANGED <<videoJobs, fs, r2, sent, api, now, retries, uploads, payments, hook, proc>>

\* catch: sendVideoFailedEmail (sent, or it throws), then `throw error`
W_FailEmailThrow(j) ==
    /\ w[j].pc = "failEmail"
    /\ sent' \in {sent \cup {<<"failed", j>>}, sent}
    /\ Settle(j, CatchOutcome)
    /\ UNCHANGED <<videoJobs, credits, fs, r2, api, now, refunds, retries, uploads, payments, hook, proc>>

\* the steps of processVideoJob once the message was delivered
Run(j) ==
    \/ W_SetProcessing(j) \/ W_Download(j) \/ W_Probe(j)
    \/ W_Detect(j) \/ W_Copy(j) \/ W_Extract(j) \/ W_WriteConcat(j)
    \/ W_Concat(j) \/ W_CleanupSegments(j) \/ W_Upload(j) \/ W_ProbeOutput(j)
    \/ W_SetCompleted(j) \/ W_Notify(j) \/ W_Cleanup(j) \/ W_CatchSetFailed(j)
    \/ W_RefundRead(j) \/ W_RefundWrite(j) \/ W_FailEmailThrow(j)

Worker(j) == W_Pick(j) \/ Run(j)

\* every local path the run of j uses
ScratchPaths(j) ==
    {InputPath(j), OutputPath(j)} \cup Range(w[j].segmentPaths)
        \cup ({w[j].concatFilePath} \ {NoPath})


(***************************************************************************)
(* The video router: confirmUpload and retryJob, one action per await.     *)
(* api[c].pc names the step the mutation of client c is about to take.     *)
(***************************************************************************)
\* a step of a mutation threw: the call ends, what was written stays written
Abort(c) == api' = [api EXCEPT ![c] = IdleCall]

\* the row confirmUpload inserts
NewRow(jobId, fileKey, filename) ==
    [status |-> "queued", inputFileKey |-> fileKey, outputFileKey |-> NullKey,
     originalFilename |-> filename, duration |-> NullDur, error |-> NullErr,
     createdAt |-> now, completedAt |-> NullTime]

\* the columns retryJob sets
RetryReset(row) ==
    [row EXCEPT !.status = "queued", !.error = NullErr,
                !.completedAt = NullTime, !.outputFileKey = NullKey]

\* the message retryJob builds from the row it selected
JobData(jobId, row) ==
    [jobId |-> jobId, inputFileKey |-> row.inputFileKey,
     originalFilename |-> row.originalFilename]

\* faulty variant of the step below: confirmUpload does not look at the
\* credits
C_BeginUnchecked(c, j, filename) ==
    /\ api[c].pc = "idle"
    /\ videoJobs[j].status = "none"
    /\ api' = [api EXCEPT ![c] =
                [pc |-> "insert", op |-> "confirmUpload", jobId |-> j,
                 ctxCredits |-> credits,
                 data |-> [jobId |-> j, inputFileKey |-> InputKey(j, filename),
                           originalFilename |-> filename]]]
    /\ UNCHANGED <<videoJobs, credits, bull, w, fs, r2, sent, now, refunds, retries, uploads, payments, hook, proc>>

\* workspaceProcedure reads the workspace row; confirmUpload's credit check
C_Begin(c, j, filename) ==
    /\ api[c].pc = "idle"
    /\ videoJobs[j].status = "none"
    /\ IF credits <= 0
       THEN UNCHANGED api
       ELSE api' = [api EXCEPT ![c] =
                [pc |-> "insert", op |-> "confirmUpload", jobId |-> j,
                 ctxCredits |-> credits,
                 data |-> [jobId |-> j, inputFileKey |-> InputKey(j, filename),
                           originalFilename |-> filename]]]
    /\ UNCHANGED <<videoJobs, credits, bull, w, fs, r2, sent, now, refunds, retries, uploads, payments, hook, proc>>

\* ctx.db.insert(videoJobs).values({... status: "queued" ...})
C_Insert(c) ==
    /\ api[c].pc = "insert"
    /\ LET j == api[c].jobId
       IN \/ /\ videoJobs[j].status = "none"
             /\ videoJobs' = [videoJobs EXCEPT ![j] =
                    NewRow(j, api[c].data.inputFileKey, api[c].data.originalFilename)]
             /\ api' = [api EXCEPT ![c].pc = "decrement"]
          \/ /\ Abort(c)
             /\ UNCHANGED videoJobs
    /\ UNCHANGED <<credits, bull, w, fs, r2, sent, now, refunds, retries, uploads, payments, hook, proc>>

\* ctx.db.update(workspaces).set({credits: ctx.workspace.credits - 1})
C_Decrement(c) ==
    /\ api[c].pc = "decrement"
    /\ api[c].op = "confirmUpload"
    /\ \/ /\ credits' = api[c].ctxCredits - 1
          /\ api' = [api EXCEPT ![c].pc = "add"]
       \/ /\ Abort(c)
          /\ UNCHANGED credits
    /\ UNCHANGED <<videoJobs, bull, w, fs, r2, sent, now, refunds, retries, uploads, payments, hook, proc>>

\* addVideoProcessingJob({jobId, workspaceId, userId, inputFileKey, originalFilename})
C_Add(c) ==
    /\ api[c].pc = "add"
    /\ api[c].op = "confirmUpload"
    /\ \/ bull' = QueueAdd(bull, api[c].data)
       \/ UNCHANGED bull
    /\ api' = [api EXCEPT ![c] = IdleCall]
    /\ UNCHANGED <<videoJobs, credits, w, fs, r2, sent, now, refunds, retries, uploads, payments, hook, proc>>

\* workspaceProcedure reads the workspace row for retryJob
R_Begin(c, j) ==
    /\ api[c].pc = "idle"
    /\ retries < MaxRetries
    /\ api' = [api EXCEPT ![c] =
            [IdleCall EXCEPT !.pc = "select", !.op = "retryJob", !.jobId = j,
                             !.ctxCredits = credits]]
    /\ UNCHANGED <<videoJobs, credits, bull, w, fs, r2, sent, now, refunds, retries, uploads, payments, hook, proc>>

\* faulty variant of the checks below: the job's status is not looked at
RetryRejectionAnyStatus(job, ctxCredits) ==
    IF job.status = "none" THEN "NOT_FOUND"
    ELSE IF ctxCredits <= 0 THEN "FORBIDDEN"
    ELSE "none"

\* retryJob's three checks in the order of the code: the TRPCError code it
\* throws for the selected job and the credits in ctx.workspace, or "none"
RetryRejection(job, ctxCredits) ==
    IF job.status = "none" THEN "NOT_FOUND"
    ELSE IF job.status # "failed" THEN "BAD_REQUEST"
    ELSE IF ctxCredits <= 0 THEN "FORBIDDEN"
    ELSE "none"

\* the select of the job and the three checks: NOT_FOUND, BAD_REQUEST, FORBIDDEN
R_Select(c) ==
    /\ api[c].pc = "select"
    /\ LET job == videoJobs[api[c].jobId]
       IN IF RetryRejection(job, api[c].ctxCredits) # "none"
          THEN Abort(c)
          ELSE api' = [api EXCEPT ![c].pc = "update",
                                  ![c].data = JobData(api[c].jobId, job)]
    /\ UNCHANGED <<videoJobs, credits, bull, w, fs, r2, sent, now, refunds, retries, uploads, payments, hook, proc>>

\* ctx.db.update(videoJobs).set({status: "queued", error: null,
\*                               completedAt: null, outputFileKey: null})
R_Update(c) ==
    /\ api[c].pc = "update"
    /\ LET j == api[c].jobId
       IN \/ /\ videoJobs' = [videoJobs EXCEPT ![j] = RetryReset(videoJobs[j])]
             /\ refunds' = [refunds EXCEPT ![j] = 0]
             /\ retries' = retries + 1
             /\ api' = [api EXCEPT ![c].pc = "add"]
          \/ /\ Abort(c)
             /\ UNCHANGED <<videoJobs, refunds, retries>>
    /\ UNCHANGED <<credits, bull, w, fs, r2, sent, now, uploads, payments, hook, proc>>

\* addVideoProcessingJob({jobId: job.id, ..., inputFileKey: job.inputFileKey, ...})
R_Add(c) ==
    /\ api[c].pc = "add"
    /\ api[c].op = "retryJob"
    /\ \/ /\ bull' = QueueAdd(bull, api[c].data)
          /\ api' = [api EXCEPT ![c].pc = "decrement"]
       \/ /\ Abort(c)
          /\ UNCHANGED bull
    /\ UNCHANGED <<videoJobs, credits, w, fs, r2, sent, now, refunds, retries, uploads, payments, hook, proc>>

\* ctx.db.update(workspaces).set({credits: ctx.workspace.credits - 1})
R_Decrement(c) ==
    /\ api[c].pc = "decrement"
    /\ api[c].op = "retryJob"
    /\ \/ credits' = api[c].ctxCredits - 1
       \/ UNCHANGED credits
    /\ api' = [api EXCEPT ![c] = IdleCall]
    /\ UNCHANGED <<videoJobs, bull, w, fs, r2, sent, now, refunds, retries, uploads, payments, hook, proc>>

Router(c, ids) ==
    \/ \E j \in ids, filename \in Filenames : C_Begin(c, j, filename)
    \/ C_Insert(c) \/ C_Decrement(c) \/ C_Add(c)
    \/ \E j \in ids : R_Begin(c, j)
    \/ R_Select(c) \/ R_Update(c) \/ R_Add(c) \/ R_Decrement(c)

(***************************************************************************)
(* Specification                                                           *)
(***************************************************************************)
\* the life of one job: upload confirmed, attempts of the worker, retry
Next ==
    \/ \E c \in Clients : Router(c, Solo)
    \/ \E j \in Solo : Worker(j)
    \/ \E j \in Solo : Evict(j)

Spec == Init /\ [][Next]_vars


(***************************************************************************)
(* Two jobs in one worker process: both uploads were confirmed, both       *)
(* messages wait in the queue, and the worker (concurrency 2) runs them.   *)
(***************************************************************************)
QueuedRow(j, filename) ==
    [NoRow EXCEPT !.status = "queued", !.inputFileKey = InputKey(j, filename),
                  !.originalFilename = filename, !.createdAt = 0]

InitPair ==
    \E m \in MediaCases, filename \in Filenames :
        /\ videoJobs = [j \in JobIds |-> QueuedRow(j, filename)]
        /\ credits = InitCredits - Cardinality(JobIds)
        /\ bull = [j \in JobIds |->
               [state |-> "waiting", attemptsMade |-> 0,
                data |-> JobData(j, QueuedRow(j, filename))]]
        /\ w = [j \in JobIds |-> IdleRun]
        /\ fs = {}
        /\ r2 = {}
        /\ sent = {}
        /\ api = [c \in Clients |-> IdleCall]
        /\ now = 0
        /\ uploads = [j \in JobIds |-> m]
        /\ refunds = [j \in JobIds |-> 0]
        /\ retries = 0
        /\ payments = {}
        /\ hook = [h \in Hooks |-> IdleHook]
        /\ proc = "running"

\* the worker process is followed through the first MaxPairAttempts attempts
\* of each job
PickPair(j) ==
    /\ bull[j].attemptsMade < MaxPairAttempts
    /\ W_Pick(j)

NextPair ==
    \/ \E j \in JobIds : PickPair(j)
    \/ \E j \in JobIds : Run(j)
    \/ Tick

SpecPair == InitPair /\ [][NextPair]_vars


(***************************************************************************)
(* Properties                                                              *)
(***************************************************************************)

\* C1: between two retries (or since creation) the failure path adds +1 to the
\* workspace's credits at most once per job id, however many attempts fail.
C1_OneRefundPerFailedJob ==
    \A j \in JobIds : refunds[j] <= 1

\* C2: a completed or failed row changes its status only by retryJob's update,
\* which makes it queued; no worker step moves it.
C2_TerminalIsFinal ==
    [][\A j \in JobIds :
          (videoJobs[j].status \in Terminal
              /\ videoJobs'[j].status # videoJobs[j].status)
          => /\ videoJobs'[j].status = "queued"
             /\ \E c \in Clients : /\ api[c].op = "retryJob"
                                   /\ api[c].pc = "update"
                                   /\ api[c].jobId = j]_vars

\* C3: a run that starts on a completed or failed row is a no-op: its first
\* step ends it and changes neither the rows, the credit balance nor the object
\* store and sends no notification.
C3_TerminalDeliveryNoOp ==
    [][\A j \in JobIds :
          (w[j].pc = "start" /\ videoJobs[j].status \in Terminal /\ Run(j))
          => /\ UNCHANGED <<videoJobs, credits, r2, sent>>
             /\ w'[j].pc = "idle"]_vars

\* C4: a row has an outputFileKey exactly when its status is completed.
C4_OutputIffCompleted ==
    \A j \in JobIds :
        videoJobs[j].status # "none"
        => (videoJobs[j].outputFileKey # NullKey
               <=> videoJobs[j].status = "completed")

\* C5: a run whose only failure is the notification changes neither the
\* row's status nor the number of refunds.
C5_NotificationNeverChangesOutcome ==
    [][\A j \in JobIds :
          (w[j].err = EmailError /\ Run(j))
          => /\ videoJobs'[j].status = videoJobs[j].status
             /\ refunds'[j] = refunds[j]]_vars

\* C6: no run of processVideoJob ends by raising an error to the queue
\* consumer: when a run ends, the queue records a completed attempt, never a
\* failed one.
C6_NoErrorReachesQueue ==
    [][\A j \in JobIds :
          (bull[j].state = "active" /\ bull'[j].state # "active")
          => bull'[j].state = "completed"]_vars

\* C7: when a run of processVideoJob ends, none of the local files it used
\* is left in TEMP_DIR.
C7_ScratchCleanedOnExit ==
    [][\A j \in JobIds :
          (w[j].pc # "idle" /\ w'[j].pc = "idle")
          => ScratchPaths(j) \cap fs' = {}]_vars

\* C8: two runs for different job ids never share a local path or an
\* object-store key.
C8_DisjointScratch ==
    \A j1, j2 \in JobIds :
        (j1 # j2 /\ w[j1].pc # "idle" /\ w[j2].pc # "idle")
        => /\ ScratchPaths(j1) \cap ScratchPaths(j2) = {}
           /\ OutputKey(j1, bull[j1].data.originalFilename)
                  # OutputKey(j2, bull[j2].data.originalFilename)

\* C9: retryJob's update makes the row queued with error, outputFileKey and
\* completedAt null and the other columns as they were, and its add puts a
\* fresh message with the row's inputFileKey into the queue.
C9_RetryResetsAndEnqueues ==
    [][\A c \in Clients :
          LET j == api[c].jobId
          IN api[c].op = "retryJob"
             => /\ (api[c].pc = "update" /\ api'[c].pc = "add")
                   => /\ videoJobs'[j].status = "queued"
                      /\ videoJobs'[j].error = NullErr
                      /\ videoJobs'[j].outputFileKey = NullKey
                      /\ videoJobs'[j].completedAt = NullTime
                      /\ videoJobs'[j].inputFileKey = videoJobs[j].inputFileKey
                      /\ videoJobs'[j].originalFilename = videoJobs[j].originalFilename
                      /\ videoJobs'[j].createdAt = videoJobs[j].createdAt
                /\ (api[c].pc = "add" /\ api'[c].pc = "decrement")
                   => /\ bull'[j].state = "waiting"
                      /\ bull'[j].attemptsMade = 0
                      /\ bull'[j].data.inputFileKey = videoJobs[j].inputFileKey]_vars

\* C10: retryJob writes the decrement before it adds the job to the queue:
\* while the decrement is still to be written, no message of this retry waits
\* in the queue.
C10_ChargedBeforeResubmitted ==
    \A c \in Clients :
        (api[c].op = "retryJob" /\ api[c].pc = "decrement")
        => ~(/\ bull[api[c].jobId].state = "waiting"
             /\ bull[api[c].jobId].attemptsMade = 0)


(***************************************************************************)
(* The user presses Retry on a failed job.  All automatic attempts of the  *)
(* job have failed (each refunded a credit and sent the failure email) and *)
(* its queue entry is retained among the failed ones                       *)
(* (removeOnFail: {count: 500}).  A second job of the workspace waits in   *)
(* the queue: the worker process is up and running.                        *)
(***************************************************************************)
FailedRow(j, filename) ==
    [QueuedRow(j, filename) EXCEPT !.status = "failed", !.error = LibError,
                                   !.completedAt = 0]

RetainedEntry(j, filename) ==
    [state |-> "failed", attemptsMade |-> Attempts,
     data |-> JobData(j, FailedRow(j, filename))]

WaitingEntry(j, filename) ==
    [state |-> "waiting", attemptsMade |-> 0,
     data |-> JobData(j, QueuedRow(j, filename))]

InitRetry ==
    \E m \in MediaCases, filename \in Filenames :
        /\ videoJobs = [j \in JobIds |->
               IF j \in Solo THEN FailedRow(j, filename)
               ELSE QueuedRow(j, filename)]
        /\ credits = InitCredits - Cardinality(JobIds) + Attempts
        /\ bull = [j \in JobIds |->
               IF j \in Solo THEN RetainedEntry(j, filename)
               ELSE WaitingEntry(j, filename)]
        /\ w = [j \in JobIds |-> IdleRun]
        /\ fs = {}
        /\ r2 = {}
        /\ sent = {<<"failed", j>> : j \in Solo}
        /\ api = [c \in Clients |-> IdleCall]
        /\ now = 0
        /\ uploads = [j \in JobIds |-> m]
        /\ refunds = [j \in JobIds |-> IF j \in Solo THEN Attempts ELSE 0]
        /\ retries = 0
        /\ payments = {}
        /\ hook = [h \in Hooks |-> IdleHook]
        /\ proc = "running"

RetryCall(c) ==
    \/ \E j \in Solo : R_Begin(c, j)
    \/ R_Select(c) \/ R_Update(c) \/ R_Add(c) \/ R_Decrement(c)

NextRetry ==
    \/ \E c \in Clients : RetryCall(c)
    \/ \E j \in JobIds : Worker(j)

\* the worker process keeps running: a waiting message is eventually taken
\* and a run that has started takes its next step
SpecRetry ==
    /\ InitRetry
    /\ [][NextRetry]_vars
    /\ \A j \in JobIds : WF_vars(Worker(j))

\* C11: once retryJob has added the failed job to the queue without an error,
\* a worker eventually picks the job up: its queue entry becomes active
\* (as long as the worker process is alive).
C11_RetriedJobIsPickedUp ==
    \A j \in Solo :
        (\E c \in Clients : /\ api[c].op = "retryJob"
                            /\ api[c].pc = "decrement"
                            /\ api[c].jobId = j)
        ~> (bull[j].state = "active" \/ proc # "running")


(***************************************************************************)
(* The planner alone: buildNonSilentSegments applied to every duration up  *)
(* to MaxDuration and every ascending, non-overlapping list of at most     *)
(* MaxSilences silences inside [0, duration], with whole seconds as times, *)
(* and to the worked example of 100 seconds.                               *)
(***************************************************************************)
MaxDuration == 4
MaxSilences == 2

Intervals(D) == {iv \in [start : 0..D, end : 0..D] : iv.start <= iv.end}

Ascending(S) == \A k \in 1..(Len(S) - 1) : S[k].end <= S[k + 1].start

SilenceLists(D) ==
    {S \in UNION {[1..n -> Intervals(D)] : n \in 0..MaxSilences} : Ascending(S)}

ExampleInput ==
    [duration |-> 100, silences |-> <<Iv(10, 15), Iv(40, 42)>>]

PlanInputs ==
    UNION {{[duration |-> D, silences |-> S] : S \in SilenceLists(D)} :
              D \in 1..MaxDuration}
        \cup {ExampleInput}

InitPlan == \E input \in PlanInputs : Start([j \in JobIds |-> input])

\* const segments = buildNonSilentSegments(duration, silences)
PlanCall(j) ==
    /\ w[j].pc = "idle"
    /\ w' = [w EXCEPT ![j].pc = "planned",
                      ![j].duration = uploads[j].duration,
                      ![j].segments = buildNonSilentSegments(
                                          uploads[j].duration, uploads[j].silences)]
    /\ UNCHANGED <<videoJobs, credits, bull, fs, r2, sent, api, now, refunds, retries, uploads, payments, hook, proc>>

NextPlan == \E j \in Solo : PlanCall(j)

SpecPlan == InitPlan /\ [][NextPlan]_vars

Planned(j) == w[j].pc = "planned"

\* the second [t, t+1) lies inside one of the intervals
Holding(t, ivs) == {k \in 1..Len(ivs) : ivs[k].start <= t /\ t < ivs[k].end}

\* C12: the returned segments are exactly the complement of the silences in
\* [0, D]: every second of [0, D) outside every silence lies in exactly one
\* segment, every second inside a silence lies in none, no segment leaves
\* [0, D], and silences covering all of [0, D] give the empty list.
C12_PlanIsComplement ==
    \A j \in Solo :
        Planned(j) =>
            LET D == uploads[j].duration
                S == uploads[j].silences
                G == w[j].segments
            IN /\ \A t \in 0..(D - 1) :
                      Cardinality(Holding(t, G)) =
                          IF Holding(t, S) = {} THEN 1 ELSE 0
               /\ \A k \in 1..Len(G) : 0 <= G[k].start /\ G[k].end <= D
               /\ (\A t \in 0..(D - 1) : Holding(t, S) # {}) => G = <<>>

C12_ExamplePlanned ==
    \E j \in Solo :
        /\ Planned(j)
        /\ uploads[j] = ExampleInput
        /\ w[j].segments = <<Iv(0, 10), Iv(15, 40), Iv(42, 100)>>

\* C13: for a duration D > 0 and no silence the plan is the one segment [0, D).
C13_NoSilencePlan ==
    \A j \in Solo :
        (Planned(j) /\ uploads[j].silences = <<>>)
        => w[j].segments = <<Iv(0, uploads[j].duration)>>

C13_NoSilencePlanned ==
    \E j \in Solo :
        /\ Planned(j)
        /\ uploads[j].silences = <<>>
        /\ uploads[j].duration = MaxDuration
        /\ Len(w[j].segments) = 1

\* C14: when the silences last T < D in total, the lengths of the returned
\* segments add up to D - T.
C14_PlanLengthSum ==
    \A j \in Solo :
        LET D == uploads[j].duration
            T == SumLengths(uploads[j].silences, 1)
        IN (Planned(j) /\ T < D) => SumLengths(w[j].segments, 1) = D - T

C14_TwoSegmentsPlanned ==
    \E j \in Solo :
        /\ Planned(j)
        /\ uploads[j].duration = MaxDuration
        /\ SumLengths(uploads[j].silences, 1) = 2
        /\ Len(w[j].segments) = 2

\* C15: for a duration D > 0 every returned segment has start < end, the
\* starts are strictly ascending and each segment ends no later than the next
\* one starts.
C15_PlanWellFormed ==
    \A j \in Solo :
        Planned(j) =>
            LET G == w[j].segments
            IN /\ \A k \in 1..Len(G) : G[k].start < G[k].end
               /\ \A k \in 1..(Len(G) - 1) :
                      /\ G[k].start < G[k + 1].start
                      /\ G[k].end <= G[k + 1].start

C15_TouchingSilencesPlanned ==
    \E j \in Solo :
        /\ Planned(j)
        /\ uploads[j].duration = 4
        /\ uploads[j].silences = <<Iv(1, 2), Iv(2, 3)>>
        /\ w[j].segments = <<Iv(0, 1), Iv(3, 4)>>


(***************************************************************************)
(* One confirmed upload in the worker: the row is queued, its one credit   *)
(* was charged by confirmUpload, the message waits, and the worker runs    *)
(* every attempt the queue grants.  No router call is made meanwhile.      *)
(***************************************************************************)
InitRun ==
    \E m \in MediaCases, filename \in Filenames :
        /\ videoJobs = [j \in JobIds |->
               IF j \in Solo THEN QueuedRow(j, filename) ELSE NoRow]
        /\ credits = InitCredits - Cardinality(Solo)
        /\ bull = [j \in JobIds |->
               IF j \in Solo THEN WaitingEntry(j, filename) ELSE NoEntry]
        /\ w = [j \in JobIds |-> IdleRun]
        /\ fs = {}
        /\ r2 = {}
        /\ sent = {}
        /\ api = [c \in Clients |-> IdleCall]
        /\ now = 0
        /\ uploads = [j \in JobIds |-> m]
        /\ refunds = [j \in JobIds |-> 0]
        /\ retries = 0
        /\ payments = {}
        /\ hook = [h \in Hooks |-> IdleHook]
        /\ proc = "running"

NextRun == \E j \in Solo : Worker(j)

SpecRun == InitRun /\ [][NextRun]_vars

\* the detected silences leave nothing to keep
AllSilent(j) ==
    /\ uploads[j].silences # <<>>
    /\ buildNonSilentSegments(uploads[j].duration, uploads[j].silences) = <<>>

\* the steps of a run after processVideo has returned
AfterProcessVideo == {"upload", "probeOutput", "setCompleted", "notify", "cleanup"}

ConcatError == "FFmpeg concatenation failed"

\* the run planned its segments from the detected silences and the plan is
\* empty
EmptyPlan(j) ==
    /\ w[j].pc \in {"extract", "concat"}
    /\ w[j].segments = <<>>

C17_NoSilenceCopies ==
    \A j \in Solo :
        uploads[j].silences = <<>>
        => /\ w[j].pc \notin {"extract", "concat", "cleanupSegments"}
           /\ w[j].segmentPaths = <<>>
           /\ w[j].concatFilePath = NoPath
           /\ fs \subseteq {InputPath(j), OutputPath(j)}
           /\ w[j].pc \in AfterProcessVideo => OutputPath(j) \in fs

C17_CopiedVerbatim ==
    \E j \in Solo :
        /\ uploads[j].silences = <<>>
        /\ w[j].pc = "upload"
        /\ OutputPath(j) \in fs
        /\ bull[j].attemptsMade = 0

\* the queue is done with the job and no run of it is in progress
JobOver(j) == w[j].pc = "idle" /\ bull[j].state \in Terminal

\* C20: the job was charged its one credit by confirmUpload.  When the queue
\* is done with it, a completed job has kept that charge (no refund was
\* written for it) and a failed job was refunded no more than that charge.
C20_NetChargePerJob ==
    \A j \in Solo :
        JobOver(j)
        => /\ videoJobs[j].status = "completed" => refunds[j] = 0
           /\ videoJobs[j].status = "failed" => refunds[j] <= 1


(***************************************************************************)
(* Two requests of the same workspace in flight at once: each caller runs  *)
(* confirmUpload for an upload of its own.                                 *)
(***************************************************************************)
Callers == {"c1", "c2"}

InitUploads ==
    \E m \in MediaCases :
        /\ videoJobs = [j \in JobIds |-> NoRow]
        /\ credits = InitCredits
        /\ bull = [j \in JobIds |-> NoEntry]
        /\ w = [j \in JobIds |-> IdleRun]
        /\ fs = {}
        /\ r2 = {}
        /\ sent = {}
        /\ api = [c \in Callers |-> IdleCall]
        /\ now = 0
        /\ uploads = [j \in JobIds |-> m]
        /\ refunds = [j \in JobIds |-> 0]
        /\ retries = 0
        /\ payments = {}
        /\ hook = [h \in Hooks |-> IdleHook]
        /\ proc = "running"

ConfirmCall(c) ==
    \/ \E j \in JobIds, filename \in Filenames : C_Begin(c, j, filename)
    \/ C_Insert(c) \/ C_Decrement(c) \/ C_Add(c)

NextUploads == \E c \in Callers : ConfirmCall(c)

SpecUploads == InitUploads /\ [][NextUploads]_vars

\* the jobs that were accepted: their message is in the queue
Enqueued == {j \in JobIds : bull[j].state # "absent"}

\* C18: once no call is in flight and every job record that was created was
\* also enqueued, the balance is the initial balance minus the number of
\* accepted jobs.
C18_OneCreditPerAcceptedJob ==
    (/\ \A c \in Callers : api[c].pc = "idle"
     /\ \A j \in JobIds : videoJobs[j].status # "none" => j \in Enqueued)
    => credits = InitCredits - Cardinality(Enqueued)

RECURSIVE SumOver(_, _)
SumOver(f, S) ==
    IF S = {} THEN 0
    ELSE LET x == CHOOSE y \in S : TRUE IN f[x] + SumOver(f, S \ {x})

\* C19: with two charged jobs in the worker and no other change of the
\* balance, the balance is the balance after the two charges plus one per
\* refund written.
C19_NoRefundLost ==
    credits = InitCredits - Cardinality(JobIds) + SumOver(refunds, JobIds)


(***************************************************************************)
(* retryJob's checks.  The workspace has one job whose attempts have all   *)
(* failed and a second upload that is either not confirmed yet or queued;  *)
(* its balance is anything from 0 to InitCredits.  Two callers of the      *)
(* workspace call retryJob on either job id.                               *)
(***************************************************************************)
InitGate ==
    \E m \in MediaCases, filename \in Filenames,
       balance \in 0..InitCredits, confirmed \in BOOLEAN :
        /\ videoJobs = [j \in JobIds |->
               IF j \in Solo THEN FailedRow(j, filename)
               ELSE IF confirmed THEN QueuedRow(j, filename) ELSE NoRow]
        /\ credits = balance
        /\ bull = [j \in JobIds |->
               IF j \in Solo THEN RetainedEntry(j, filename)
               ELSE IF confirmed THEN WaitingEntry(j, filename) ELSE NoEntry]
        /\ w = [j \in JobIds |-> IdleRun]
        /\ fs = {}
        /\ r2 = {}
        /\ sent = {<<"failed", j>> : j \in Solo}
        /\ api = [c \in Callers |-> IdleCall]
        /\ now = 0
        /\ uploads = [j \in JobIds |-> m]
        /\ refunds = [j \in JobIds |-> IF j \in Solo THEN Attempts ELSE 0]
        /\ retries = 0
        /\ payments = {}
        /\ hook = [h \in Hooks |-> IdleHook]
        /\ proc = "running"

GateCall(c) ==
    \/ \E j \in JobIds : R_Begin(c, j)
    \/ R_Select(c) \/ R_Update(c) \/ R_Add(c) \/ R_Decrement(c)

NextGate == \E c \in Callers : GateCall(c)

SpecGate == InitGate /\ [][NextGate]_vars

\* C21: the step of retryJob that selects the job and checks it raises
\* NOT_FOUND for a job id without a row, BAD_REQUEST for a row whose status is
\* not failed and FORBIDDEN for a failed job when the credits read for the
\* request are <= 0; a call that raises ends there and leaves the job rows,
\* the balance and the queue as they were; any other call goes on to reset
\* the row.
C21_RetryRejectedWithoutEffect ==
    [][\A c \in Callers :
          (api[c].op = "retryJob" /\ api[c].pc = "select" /\ api'[c] # api[c])
          => LET job == videoJobs[api[c].jobId]
                 code == RetryRejection(job, api[c].ctxCredits)
             IN /\ job.status = "none" => code = "NOT_FOUND"
                /\ job.status \in Statuses \ {"failed"} => code = "BAD_REQUEST"
                /\ (job.status = "failed" /\ api[c].ctxCredits <= 0)
                   => code = "FORBIDDEN"
                /\ (job.status = "failed" /\ api[c].ctxCredits > 0)
                   => code = "none"
                /\ code # "none"
                   => /\ api'[c] = IdleCall
                      /\ UNCHANGED <<videoJobs, credits, bull>>
                /\ code = "none" => api'[c].pc = "update"]_vars

\* one caller's call on the failed job is at its checks with no credits read
\* for the request while the other caller's call is at its checks on a job
\* that is queued
C21_RetryRejected ==
    \E c1, c2 \in Callers :
        /\ api[c1].op = "retryJob" /\ api[c1].pc = "select"
        /\ videoJobs[api[c1].jobId].status = "failed"
        /\ api[c1].ctxCredits = 0
        /\ api[c2].op = "retryJob" /\ api[c2].pc = "select"
        /\ videoJobs[api[c2].jobId].status = "queued"


(***************************************************************************)
(* The Stripe webhook: POST /api/webhooks/stripe, one action per await.    *)
(* One payment was made for the workspace; Stripe delivers                 *)
(* checkout.session.completed and payment_intent.succeeded for it, and     *)
(* delivers an event again when the handler did not answer 200.            *)
(***************************************************************************)
CreditsToAdd == 100

EventTypes == {"checkout.session.completed", "payment_intent.succeeded"}

\* session.id and paymentIntent.id of the one payment
SessionId == "cs_1"
PaymentIntentId == "pi_1"

\* the value the handler stores in payments.stripeSessionId
PaymentKey(type) ==
    IF type = "checkout.session.completed" THEN SessionId ELSE PaymentIntentId

\* the handler answered (200, or 500 from its catch block)
Answer(h) == hook' = [hook EXCEPT ![h] = [IdleHook EXCEPT !.pc = "done"]]

\* constructEvent succeeded and the switch took the case of event.type
H_Receive(h, type) ==
    /\ hook[h].pc = "idle"
    /\ hook' = [hook EXCEPT ![h].event = type,
                            ![h].pc = IF type = "payment_intent.succeeded"
                                      THEN "selectPayment" ELSE "selectWorkspace"]
    /\ UNCHANGED <<videoJobs, credits, bull, w, fs, r2, sent, api, now, refunds, retries, uploads, payments, proc>>

\* payment_intent.succeeded: select from payments where stripeSessionId = paymentIntent.id
H_SelectPayment(h) ==
    /\ hook[h].pc = "selectPayment"
    /\ IF PaymentIntentId \in payments
       THEN Answer(h)
       ELSE hook' = [hook EXCEPT ![h].pc = "selectWorkspace"]
    /\ UNCHANGED <<videoJobs, credits, bull, w, fs, r2, sent, api, now, refunds, retries, uploads, payments, proc>>

\* the select of the workspace row
H_SelectWorkspace(h) ==
    /\ hook[h].pc = "selectWorkspace"
    /\ hook' = [hook EXCEPT ![h].pc = "update", ![h].workspaceCredits = credits]
    /\ UNCHANGED <<videoJobs, credits, bull, w, fs, r2, sent, api, now, refunds, retries, uploads, payments, proc>>

\* db.update(workspaces).set({credits: currentWorkspace[0].credits + creditsToAdd})
H_Update(h) ==
    /\ hook[h].pc = "update"
    /\ \/ /\ credits' = hook[h].workspaceCredits + CreditsToAdd
          /\ hook' = [hook EXCEPT ![h].pc = "insert"]
       \/ /\ Answer(h)
          /\ UNCHANGED credits
    /\ UNCHANGED <<videoJobs, bull, w, fs, r2, sent, api, now, refunds, retries, uploads, payments, proc>>

\* db.insert(payments).values({stripeSessionId, ...}): the column is unique
H_Insert(h) ==
    /\ hook[h].pc = "insert"
    /\ \/ /\ PaymentKey(hook[h].event) \notin payments
          /\ payments' = payments \cup {PaymentKey(hook[h].event)}
       \/ UNCHANGED payments
    /\ Answer(h)
    /\ UNCHANGED <<videoJobs, credits, bull, w, fs, r2, sent, api, now, refunds, retries, uploads, proc>>

Webhook(h) ==
    \/ \E type \in EventTypes : H_Receive(h, type)
    \/ H_SelectPayment(h) \/ H_SelectWorkspace(h) \/ H_Update(h) \/ H_Insert(h)

InitWebhook == \E m \in MediaCases : Start([j \in JobIds |-> m])

NextWebhook == \E h \in Hooks : Webhook(h)

SpecWebhook == InitWebhook /\ [][NextWebhook]_vars

\* C22: whatever Stripe delivers for the one payment, and however often, the
\* workspace's credits rise by CreditsToAdd at most once.
C22_CreditsAddedOnce ==
    credits <= InitCredits + CreditsToAdd


(***************************************************************************)
(* Shutdown of the worker process: the SIGTERM and SIGINT handlers await   *)
(* worker.close(), which takes no further job and resolves once no job is  *)
(* active, then quit the connection and call process.exit(0).              *)
(***************************************************************************)
\* faulty variant of the step below: the process exits without awaiting
\* worker.close()
ExitAtOnce ==
    /\ proc = "closing"
    /\ proc' = "exited"
    /\ UNCHANGED <<videoJobs, credits, bull, w, fs, r2, sent, api, now, refunds, retries, uploads, payments, hook>>

\* SIGTERM or SIGINT is received: the handler calls worker.close()
Signal ==
    /\ proc = "running"
    /\ proc' = "closing"
    /\ UNCHANGED <<videoJobs, credits, bull, w, fs, r2, sent, api, now, refunds, retries, uploads, payments, hook>>

\* worker.close() has resolved; connection.quit(), process.exit(0)
Exit ==
    /\ proc = "closing"
    /\ ActiveJobs = {}
    /\ proc' = "exited"
    /\ UNCHANGED <<videoJobs, credits, bull, w, fs, r2, sent, api, now, refunds, retries, uploads, payments, hook>>

\* one confirmed job, every attempt the queue grants it, and the signal at
\* any moment
NextShutdown ==
    \/ \E j \in Solo : Worker(j)
    \/ Signal
    \/ Exit

SpecShutdown == InitRun /\ [][NextShutdown]_vars

\* a run of processVideoJob is in flight
InFlight == {j \in JobIds : w[j].pc # "idle"}

BeforeCompleted ==
    {"download", "probe", "detect", "copy", "extract", "concat",
     "cleanupSegments", "upload", "probeOutput", "setCompleted"}

\* C25: the processing write comes before any I/O of the run: while the run
\* is at the download, at a probe, at the detection, at an ffmpeg step, at a
\* scratch-file write or at the upload, the row is processing; and the run
\* touches TEMP_DIR and the object store only in these steps.
C25_ProcessingBeforeIO ==
    [][\A j \in Solo :
          /\ w[j].pc \in BeforeCompleted => videoJobs[j].status = "processing"
          /\ (fs' # fs \/ r2' # r2)
             => w[j].pc \in BeforeCompleted \cup {"cleanup"}
          /\ w[j].pc = "start" => w'[j].pc \in {"start", "download", "catch"}]_vars

\* a run fails at the download of its first attempt: the row it leaves to
\* the catch block is processing
C25_FailedWhileProcessing ==
    \E j \in Solo :
        /\ w[j].pc = "catch"
        /\ w[j].err = "Failed to get file stream from R2"
        /\ bull[j].attemptsMade = 0
        /\ videoJobs[j].status = "processing"

StepErrors ==
    {"Failed to get file stream from R2", LibError, "FFprobe failed",
     "FFmpeg copy failed", "FFmpeg segment extraction failed",
     "FFmpeg concatenation failed"}

\* C27: a step of the try block that fails hands its error to the catch
\* block; the catch block's write sets the row to failed with the message of
\* that error and completedAt; the failure notification is sent after that
\* write, by the same run, while the row is failed with that message.
C27_FailureRecorded ==
    [][\A j \in Solo :
          /\ (w[j].pc \in BeforeCompleted /\ w'[j].pc \notin BeforeCompleted
                /\ w'[j].pc # "notify")
             => /\ w'[j].pc = "catch"
                /\ w'[j].err \in StepErrors
                /\ w'[j].err # NullErr
          /\ (w[j].pc = "catch" /\ w'[j].pc # "catch")
             => \/ /\ w'[j].pc = "refundRead"
                   /\ videoJobs'[j].status = "failed"
                   /\ videoJobs'[j].error = w[j].err
                   /\ videoJobs'[j].completedAt = now
                \/ /\ w'[j].pc = "idle"
                   /\ videoJobs' = videoJobs
          /\ sent' # sent /\ <<"failed", j>> \in sent' \ sent
             => /\ w[j].pc = "failEmail"
                /\ videoJobs[j].status = "failed"
                /\ videoJobs[j].error = w[j].err
                /\ videoJobs[j].completedAt # NullTime]_vars

\* C28: a detector that exits with a failure status is an error of the run:
\* processVideo takes the copy path only for an input in which there is no
\* silence to detect.
C28_DetectorFailureFails ==
    [][\A j \in Solo :
          (w[j].pc = "detect" /\ w'[j].pc = "copy")
          => uploads[j].silences = <<>>]_vars

\* the download of the run's first attempt failed while the object was being
\* streamed, with an error of the object store's client (a time-out, a
\* connection error)
DownloadFailed(j) ==
    /\ w[j].err = LibError
    /\ w[j].duration = NullDur
    /\ InputPath(j) \in fs
    /\ bull[j].attemptsMade = 0

\* C29: a run whose download failed with a time-out or connection error
\* writes neither failed to the row nor a refund to the balance.
C29_TransientNotTerminal ==
    [][\A j \in Solo :
          /\ (w[j].pc = "catch" /\ DownloadFailed(j)
                /\ videoJobs[j].status = "processing")
             => videoJobs'[j].status # "failed"
          /\ (w[j].pc = "refundWrite" /\ DownloadFailed(j))
             => credits' = credits]_vars

\* C30: a failed probe of the output is not an error of the run: the probe
\* step always goes on to the completed write, changing neither the row, the
\* balance nor the notifications, and the completed write sets completed, the
\* output key and the duration the probe gave, null when it failed.
C30_OutputProbeBestEffort ==
    [][\A j \in Solo :
          /\ (w[j].pc = "probeOutput" /\ w'[j] # w[j])
             => /\ w'[j].pc = "setCompleted"
                /\ w'[j].duration \in {NullDur} \cup 1..uploads[j].duration
                /\ UNCHANGED <<videoJobs, credits, sent, refunds>>
          /\ (w[j].pc = "setCompleted" /\ w'[j].pc = "notify")
             => /\ videoJobs'[j].status = "completed"
                /\ videoJobs'[j].outputFileKey =
                       OutputKey(j, bull[j].data.originalFilename)
                /\ videoJobs'[j].duration = w[j].duration]_vars

(***************************************************************************)
(* parseSilenceDetection(stderr): the pure function on its own.  A line of *)
(* stderr holds a silence_start marker, a silence_end marker or neither,   *)
(* each marker followed by the time ffmpeg printed; ffmpeg prints a        *)
(* negative silence_start for a silence that begins with the stream.       *)
(***************************************************************************)
MaxLines == 3
MaxTime == 1

\* the times printed after "silence_start: " and after "silence_end: "
StartTimes == (0 - 1)..MaxTime
EndTimes == 0..MaxTime

\* ffmpeg prints each marker on a line of its own
Lines ==
    {line \in [start : {{}} \cup {{t} : t \in StartTimes},
               end : {{}} \cup {{t} : t \in EndTimes}] :
        line.start = {} \/ line.end = {}}

Streams == UNION {[1..n -> Lines] : n \in 0..MaxLines}

\* the one element of a singleton
The(S) == CHOOSE x \in S : TRUE

\* /silence_start: ([\d.]+)/ and /silence_end: ([\d.]+)/ followed by
\* parseFloat: the group takes digits and dots only, so a marker whose time
\* begins with a minus sign does not match
startRegex(line) == {t \in line.start : t >= 0}
endRegex(line) == {t \in line.end : t >= 0}

\* the loop over the lines from line k on; currentStart is
\* currentSilence.start, empty when undefined
RECURSIVE ParseFrom(_, _, _, _)
ParseFrom(lines, k, currentStart, silences) ==
    IF k > Len(lines) THEN silences
    ELSE LET startMatch == startRegex(lines[k])
             endMatch == endRegex(lines[k])
             start == IF startMatch # {} THEN startMatch ELSE currentStart
         IN IF endMatch # {} /\ start # {}
            THEN ParseFrom(lines, k + 1, {},
                           Append(silences,
                                  [start |-> The(start), end |-> The(endMatch)]))
            ELSE ParseFrom(lines, k + 1, start, silences)

parseSilenceDetection(stderr) == ParseFrom(stderr, 1, {}, <<>>)

InitParse == \E stderr \in Streams : Start([j \in JobIds |-> [stderr |-> stderr]])

\* const silences = parseSilenceDetection(stderr)
ParseCall(j) ==
    /\ w[j].pc = "idle"
    /\ w' = [w EXCEPT ![j] = [pc |-> "parsed",
                              silences |-> parseSilenceDetection(uploads[j].stderr)]]
    /\ UNCHANGED <<videoJobs, credits, bull, fs, r2, sent, api, now, refunds, retries, uploads, payments, hook, proc>>

NextParse == \E j \in Solo : ParseCall(j)

SpecParse == InitParse /\ [][NextParse]_vars

Parsed(j) == w[j].pc = "parsed"

\* the lines up to p that hold a start marker no end marker has followed
\* before line p (on one line the start marker comes first)
OpenStarts(lines, p) ==
    {q \in 1..p : /\ lines[q].start # {}
                  /\ \A r \in q..(p - 1) : lines[r].end = {}}

Latest(Q) == CHOOSE q \in Q : \A r \in Q : r <= q

\* the intervals the markers of lines 1..p stand for
RECURSIVE MarkerPairs(_, _)
MarkerPairs(lines, p) ==
    IF p = 0 THEN <<>>
    ELSE IF lines[p].end # {} /\ OpenStarts(lines, p) # {}
         THEN Append(MarkerPairs(lines, p - 1),
                     [start |-> The(lines[Latest(OpenStarts(lines, p))].start),
                      end |-> The(lines[p].end)])
         ELSE MarkerPairs(lines, p - 1)

\* C31: the result lists, in the order of their end markers, one interval
\* for every end marker that has an unconsumed start marker before it, made
\* of the most recent such start marker and that end marker, and nothing
\* else: a start marker with no end marker after it and an end marker with no
\* unconsumed start marker before it give no interval.
C31_ParsePairsMarkers ==
    \A j \in Solo :
        Parsed(j)
        => w[j].silences = MarkerPairs(uploads[j].stderr, Len(uploads[j].stderr))


\* C32: the extraction loop takes the segments one at a time in the order of
\* the segment list: each iteration names the clip of the next index and
\* appends it to segmentPaths; an extraction that fails leaves the loop for
\* the catch block; the manifest is written from segmentPaths, and the
\* concatenation starts only with one clip per segment, in segment order,
\* every clip and the manifest on disk.
C32_ExtractInOrderThenConcat ==
    [][\A j \in Solo :
          /\ (w[j].pc = "extract" /\ w'[j].segmentPaths # w[j].segmentPaths)
             => /\ w'[j].segmentPaths =
                       Append(w[j].segmentPaths,
                              SegmentPath(now, Len(w[j].segmentPaths)))
                /\ Len(w'[j].segmentPaths) <= Len(w[j].segments)
                /\ \/ /\ w'[j].pc = "extract"
                      /\ Range(w'[j].segmentPaths) \subseteq fs'
                   \/ /\ w'[j].pc = "catch"
                      /\ w'[j].err = "FFmpeg segment extraction failed"
          /\ w[j].pc = "extract" => w'[j].pc \in {"extract", "concat", "catch"}
          /\ w[j].pc = "catch" => w'[j].pc \in {"catch", "refundRead", "idle"}
          /\ w'[j].pc = "concat"
             => /\ w[j].pc \in {"extract", "concat"}
                /\ Len(w'[j].segmentPaths) = Len(w'[j].segments)
                /\ \A k \in 1..Len(w'[j].segmentPaths) :
                       w'[j].segmentPaths[k][3] = k - 1
                /\ Range(w'[j].segmentPaths) \subseteq fs'
                /\ w'[j].concatFilePath \in fs'
          /\ (w[j].pc = "concat" /\ w'[j].pc = "cleanupSegments")
             => OutputPath(j) \in fs']_vars

\* the first attempt is about to concatenate the two clips it extracted
C32_TwoClipsToConcat ==
    \E j \in Solo :
        /\ w[j].pc = "concat"
        /\ Len(w[j].segments) = 2
        /\ Len(w[j].segmentPaths) = 2
        /\ Range(w[j].segmentPaths) \subseteq fs
        /\ bull[j].attemptsMade = 0


(***************************************************************************)
(* The fields of the job row                                               *)
(***************************************************************************)
\* C33: the row carries an error message only while its status is failed.
C33_ErrorOnlyWhenFailed ==
    \A j \in Solo :
        videoJobs[j].error # NullErr => videoJobs[j].status = "failed"

\* C34: the row carries completedAt exactly while its status is completed or
\* failed.
C34_CompletedAtIffTerminal ==
    \A j \in Solo :
        videoJobs[j].completedAt # NullTime <=> videoJobs[j].status \in Terminal

\* C35: retryJob's update never rewrites a row that is processing or
\* completed at the moment of the write.
C35_RetryNeverOverwritesRun ==
    [][\A c \in Clients :
          (api[c].pc = "update" /\ api'[c].pc = "add")
          => videoJobs[api[c].jobId].status \notin {"processing", "completed"}]_vars


(***************************************************************************)
(* Termination of a job: the worker of SpecRun, which takes every step it  *)
(* can take; every external call returns or fails.                         *)
(***************************************************************************)
SpecLive == InitRun /\ [][NextRun]_vars /\ \A j \in Solo : WF_vars(Worker(j))

\* C36: a job the worker has picked up, its row written processing, reaches
\* completed or failed.
C36_PickedJobEnds ==
    \A j \in Solo :
        (videoJobs[j].status = "processing") ~> (videoJobs[j].status \in Terminal)


\* C37: once no call of confirmUpload is in flight, a job whose row is queued
\* while no message for it is in the queue has not been charged: the balance
\* shows one charge per enqueued job and no other.
C37_ConfirmAllOrNothing ==
    (\A c \in Callers : api[c].pc = "idle")
    => \A j \in JobIds :
           (videoJobs[j].status = "queued" /\ j \notin Enqueued)
           => credits = InitCredits - Cardinality(Enqueued)


(***************************************************************************)
(* Every writer of the balance at once: one confirmed job in the worker,   *)
(* a second upload to confirm, retryJob, and one delivery by Stripe; the   *)
(* balance starts anywhere from 0 to InitCredits.                          *)
(***************************************************************************)
\* one delivery by Stripe
Delivery == {"h1"}

\* the input in which a silence is detected: every step of the worker occurs
Trimmed == {m \in MediaCases : m.silences # <<>> /\ ~ m.silences[1].start = 0}

InitBalance ==
    \E m \in Trimmed, filename \in Filenames, balance \in 0..InitCredits :
        /\ videoJobs = [j \in JobIds |->
               IF j \in Solo THEN QueuedRow(j, filename) ELSE NoRow]
        /\ credits = balance
        /\ bull = [j \in JobIds |->
               IF j \in Solo THEN WaitingEntry(j, filename) ELSE NoEntry]
        /\ w = [j \in JobIds |-> IdleRun]
        /\ fs = {}
        /\ r2 = {}
        /\ sent = {}
        /\ api = [c \in Clients |-> IdleCall]
        /\ now = 0
        /\ uploads = [j \in JobIds |-> m]
        /\ refunds = [j \in JobIds |-> 0]
        /\ retries = 0
        /\ payments = {}
        /\ hook = [h \in Hooks |-> IdleHook]
        /\ proc = "running"

NextBalance ==
    \/ \E c \in Clients : Router(c, JobIds)
    \/ \E j \in Solo : PickPair(j)
    \/ \E j \in Solo : Run(j)
    \/ \E h \in Delivery : Webhook(h)

SpecBalance == InitBalance /\ [][NextBalance]_vars

\* C38: the balance is never negative.
C38_BalanceNeverNegative == credits >= 0

\* the balance is 0 although a top-up and a refund were written: a
\* confirmUpload that read the balance before them wrote its own value last
C38_LastCreditSpent ==
    /\ credits = 0
    /\ payments # {}
    /\ \E j \in Solo : refunds[j] > 0
    /\ \E j \in JobIds \ Solo : videoJobs[j].status = "queued"


====
